---- MODULE Spec2Model ----
(***************************************************************************)
(* Threshold-based temporary layer input processor                         *)
(* (config/src/input_processor_temp_layer_threshold.c).                    *)
(*                                                                         *)
(* Every device instance owns a temp_layer_threshold_state and a           *)
(* temp_layer_threshold_config.  The handlers are                          *)
(*   temp_layer_threshold_handle_event   (input events),                   *)
(*   position_state_changed_listener     (key position events, broadcast), *)
(*   layer_disable_callback              (delayable work),                 *)
(*   accumulation_reset_callback         (delayable work).                 *)
(* Time is the kernel uptime in ms (k_uptime_get); a delayable work item   *)
(* holds the uptime at which it is due.  A due work item runs before the   *)
(* uptime advances, in any order with the events of that same instant.     *)
(***************************************************************************)
EXTENDS Integers, Sequences, FiniteSets, TLC

VARIABLES
    now,        \* k_uptime_get()
    cfg,        \* dev->config of every instance (immutable)
    devs,       \* dev->data of every instance (struct temp_layer_threshold_state)
    running,    \* instances whose layer_disable_work was taken off the queue,
                \* its handler not yet entered (used by SpecRace only)
    calls,      \* zmk_keymap_layer_activate/deactivate calls made by the last step
    last_call,  \* per instance, the most recent keymap call it made
    last_key,   \* the timestamps of the last key press and of the last key event
                \* (press or release), -1 before the first
    op,         \* the handler that ran in the last step, with the event it was given
    since       \* per instance, the uptime of the first event counted into the
                \* accumulators since they were last zero, -1 while they are zero
                \* (kept by SpecWindow only)

vars == <<now, cfg, devs, running, calls, last_call, last_key, op, since>>

---------------------------------------------------------------------------
(* Bounds of the model *)

\* the uptime stops advancing here
MaxTime == 2

\* handle_event is not delivered once the accumulated total exceeds this
MaxAccum == 4

---------------------------------------------------------------------------
(* Inputs *)

\* DT_INST_FOREACH_STATUS_OKAY: the device instances of a build, one or two
OneInstance == {0}
TwoInstances == {0, 1}

\* the instances of this build
Instances == DOMAIN devs

\* devicetree properties of an instance
Thresholds == {4}
ThresholdTimes == {2}
PriorIdles == {0, 1}
ExcludedLists == {<<5>>}

\* event->value
Deltas == {-2, 1}

\* relative motion on the two axes the handler accumulates
MotionEvents == [type : {"INPUT_EV_REL"}, code : {"INPUT_REL_X", "INPUT_REL_Y"}, value : Deltas]

\* events of another shape: another axis, another event type
OtherEvents ==
    {[type |-> "INPUT_EV_REL", code |-> "INPUT_REL_WHEEL", value |-> 1],
     [type |-> "INPUT_EV_ABS", code |-> "INPUT_REL_X", value |-> 1]}

\* param1 (layer) and param2 (timeout in ms) of an invocation
Layers == {1, 255}
Timeouts == {1, 2}

\* ev->position of a key position event
Positions == {3, 5}

Events == MotionEvents \cup OtherEvents

\* the motion delivered in the build with two instances
TwoEvents == {[type |-> "INPUT_EV_REL", code |-> "INPUT_REL_X", value |-> -2]}

Configs ==
    [threshold : Thresholds, threshold_time_ms : ThresholdTimes,
     require_prior_idle_ms : PriorIdles, excluded_positions : ExcludedLists]

---------------------------------------------------------------------------
(* C integer types *)

\* TLC's integers are 32 bits wide themselves: the arithmetic below never forms
\* a value outside the int32_t range
INT32_MAX == 2147483647

INT32_MIN == -INT32_MAX - 1

\* event->value is an int32_t: the extremes and a small delta
WideDeltas == {INT32_MIN, INT32_MAX, 1}

WideEvents == [type : {"INPUT_EV_REL"}, code : {"INPUT_REL_X", "INPUT_REL_Y"}, value : WideDeltas]

\* signed overflow is undefined: the build may leave the two's complement
\* result w, or any other value (sampled by the extremes and 0)
Overflowed(w) == {w, INT32_MIN, 0, INT32_MAX}

\* the possible results of the int32_t addition a + b
Add32(a, b) ==
    IF a > 0 /\ b > 0 /\ a > INT32_MAX - b
    THEN Overflowed((a - INT32_MAX - 1) + (b - INT32_MAX - 1))
    ELSE IF a < 0 /\ b < 0 /\ a < INT32_MIN - b
    THEN Overflowed((a + INT32_MAX + 1) + (b + INT32_MAX + 1))
    ELSE {a + b}

\* the possible results of the int32_t negation -a
Neg32(a) == IF a = INT32_MIN THEN Overflowed(INT32_MIN) ELSE {-a}

\* uint8_t layer = param1
ToUint8(x) == x % 256

\* int8_t active_layer = layer (modulo conversion)
ToInt8(x) == IF x % 256 >= 128 THEN (x % 256) - 256 ELSE x % 256

---------------------------------------------------------------------------
(* struct k_work_delayable *)

IdleWork == [pending |-> FALSE, deadline |-> 0]

\* k_work_reschedule(work, K_MSEC(ms)) at uptime t: replaces any pending schedule
Reschedule(t, ms) == [pending |-> TRUE, deadline |-> t + ms]

\* the work item is scheduled and its delay has elapsed
Due(work, t) == work.pending /\ work.deadline <= t

---------------------------------------------------------------------------
(* Keymap calls *)

NoCall == [kind |-> "none", layer |-> 0]

Activate(layer) == [kind |-> "activate", layer |-> layer]

\* variant: the signed active_layer reaches the keymap as it is
DeactivateSigned(layer) == [kind |-> "deactivate", layer |-> layer]

\* the argument is converted to the keymap's unsigned layer id
Deactivate(layer) == [kind |-> "deactivate", layer |-> ToUint8(layer)]

\* what a handler leaves behind: the new state, the calls it made, its return value
Result(st, cs, ret) == [state |-> st, calls |-> cs, ret |-> ret]

---------------------------------------------------------------------------
(* temp_layer_threshold_init *)

InitState ==
    [accumulated_x |-> 0,
     accumulated_y |-> 0,
     active_layer |-> -1,
     layer_active |-> FALSE,
     last_tapped_time |-> 0,
     layer_disable_work |-> IdleWork,
     accumulation_reset_work |-> IdleWork]

---------------------------------------------------------------------------
(* layer_disable_callback *)

\* variant: the handler without its guard
layer_disable_callback_unguarded(st) ==
    Result([st EXCEPT !.layer_active = FALSE, !.active_layer = -1],
           <<Deactivate(st.active_layer)>>, "void")

layer_disable_callback(st) ==
    IF st.layer_active /\ st.active_layer >= 0
    THEN Result([st EXCEPT !.layer_active = FALSE, !.active_layer = -1],
                <<Deactivate(st.active_layer)>>, "void")
    ELSE Result(st, <<>>, "void")

(* accumulation_reset_callback *)

\* variant: the reset that forgets the second axis
accumulation_reset_callback_x_only(st) ==
    Result([st EXCEPT !.accumulated_x = 0], <<>>, "void")

accumulation_reset_callback(st) ==
    Result([st EXCEPT !.accumulated_x = 0, !.accumulated_y = 0], <<>>, "void")

---------------------------------------------------------------------------
(* is_position_excluded *)

RECURSIVE ScanExcluded(_, _, _)
ScanExcluded(positions, i, position) ==
    IF i > Len(positions) THEN FALSE
    ELSE IF positions[i] = position THEN TRUE
    ELSE ScanExcluded(positions, i + 1, position)

\* variant: the scan that starts one element late
is_position_excluded_skip_first(c, position) ==
    ScanExcluded(c.excluded_positions, 2, position)

is_position_excluded(c, position) == ScanExcluded(c.excluded_positions, 1, position)

---------------------------------------------------------------------------
(* position_state_changed_listener: the body of CHECK_LAYER for one instance *)

\* variant: the deactivation that leaves the disable work scheduled
check_layer_no_cancel(st, c, ev) ==
    LET deact == st.layer_active /\ ~is_position_excluded(c, ev.position)
        s1 == IF deact
              THEN [st EXCEPT !.layer_active = FALSE, !.active_layer = -1]
              ELSE st
    IN Result([s1 EXCEPT !.last_tapped_time = ev.timestamp],
              IF deact THEN <<Deactivate(st.active_layer)>> ELSE <<>>,
              "ZMK_EV_EVENT_BUBBLE")

check_layer(st, c, ev) ==
    LET deact == st.layer_active /\ ~is_position_excluded(c, ev.position)
        s1 == IF deact
              THEN [st EXCEPT !.layer_disable_work = IdleWork,
                              !.layer_active = FALSE,
                              !.active_layer = -1]
              ELSE st
    IN Result([s1 EXCEPT !.last_tapped_time = ev.timestamp],
              IF deact THEN <<Deactivate(st.active_layer)>> ELSE <<>>,
              "ZMK_EV_EVENT_BUBBLE")

\* variant: the listener that deactivates without looking at layer_active
position_state_changed_listener_any(st, c, ev) ==
    IF ~ev.state
    THEN Result(st, <<>>, "ZMK_EV_EVENT_BUBBLE")
    ELSE IF ~is_position_excluded(c, ev.position)
    THEN Result([st EXCEPT !.layer_disable_work = IdleWork,
                           !.layer_active = FALSE,
                           !.active_layer = -1,
                           !.last_tapped_time = ev.timestamp],
                <<Deactivate(st.active_layer)>>, "ZMK_EV_EVENT_BUBBLE")
    ELSE Result([st EXCEPT !.last_tapped_time = ev.timestamp], <<>>,
                "ZMK_EV_EVENT_BUBBLE")

\* variant: the listener that records the timestamp of a release as well
position_state_changed_listener_every(st, c, ev) ==
    IF ~ev.state
    THEN Result([st EXCEPT !.last_tapped_time = ev.timestamp], <<>>,
                "ZMK_EV_EVENT_BUBBLE")
    ELSE check_layer(st, c, ev)

\* the listener for one instance: a release returns before CHECK_LAYER
position_state_changed_listener(st, c, ev) ==
    IF ~ev.state
    THEN Result(st, <<>>, "ZMK_EV_EVENT_BUBBLE")
    ELSE check_layer(st, c, ev)

---------------------------------------------------------------------------
(* temp_layer_threshold_handle_event *)

\* variant: the gate that also holds back the event at exactly the idle time
IdleGatedInclusive(st, c, t) ==
    /\ c.require_prior_idle_ms > 0
    /\ (t - st.last_tapped_time) <= c.require_prior_idle_ms

\* the prior idle requirement
IdleGated(st, c, t) ==
    /\ c.require_prior_idle_ms > 0
    /\ (t - st.last_tapped_time) < c.require_prior_idle_ms

\* (event->value > 0) ? event->value : -event->value
AbsValue(v) == IF v > 0 THEN {v} ELSE Neg32(v)

\* the states after "Accumulate movement"
Accumulate(st, ev) ==
    IF ev.type = "INPUT_EV_REL" /\ ev.code = "INPUT_REL_X"
    THEN {[st EXCEPT !.accumulated_x = s] :
            s \in UNION {Add32(st.accumulated_x, a) : a \in AbsValue(ev.value)}}
    ELSE IF ev.type = "INPUT_EV_REL" /\ ev.code = "INPUT_REL_Y"
    THEN {[st EXCEPT !.accumulated_y = s] :
            s \in UNION {Add32(st.accumulated_y, a) : a \in AbsValue(ev.value)}}
    ELSE {st}

\* int32_t total_movement = accumulated_x + accumulated_y
TotalMovement(st) == Add32(st.accumulated_x, st.accumulated_y)

\* variant: the window is fixed at the first event, the reset timer is
\* scheduled only when none is pending
AfterAccumulateFixedWindow(s1, c, total, layer, timeout_ms, t) ==
    LET s2 == IF s1.accumulation_reset_work.pending THEN s1
              ELSE [s1 EXCEPT !.accumulation_reset_work = Reschedule(t, c.threshold_time_ms)]
    IN IF s2.layer_active
       THEN Result([s2 EXCEPT !.layer_disable_work = Reschedule(t, timeout_ms)],
                   <<>>, "ZMK_INPUT_PROC_CONTINUE")
       ELSE IF total >= c.threshold
       THEN Result([s2 EXCEPT !.layer_active = TRUE,
                              !.active_layer = ToInt8(layer),
                              !.accumulated_x = 0,
                              !.accumulated_y = 0,
                              !.layer_disable_work = Reschedule(t, timeout_ms)],
                   <<Activate(layer)>>, "ZMK_INPUT_PROC_CONTINUE")
       ELSE Result(s2, <<>>, "ZMK_INPUT_PROC_CONTINUE")

\* variant: the threshold must be exceeded, not reached
AfterAccumulateStrict(s1, c, total, layer, timeout_ms, t) ==
    LET s2 == [s1 EXCEPT !.accumulation_reset_work = Reschedule(t, c.threshold_time_ms)]
    IN IF s2.layer_active
       THEN Result([s2 EXCEPT !.layer_disable_work = Reschedule(t, timeout_ms)],
                   <<>>, "ZMK_INPUT_PROC_CONTINUE")
       ELSE IF total > c.threshold
       THEN Result([s2 EXCEPT !.layer_active = TRUE,
                              !.active_layer = ToInt8(layer),
                              !.accumulated_x = 0,
                              !.accumulated_y = 0,
                              !.layer_disable_work = Reschedule(t, timeout_ms)],
                   <<Activate(layer)>>, "ZMK_INPUT_PROC_CONTINUE")
       ELSE Result(s2, <<>>, "ZMK_INPUT_PROC_CONTINUE")

\* variant: an active layer's timeout is not renewed
AfterAccumulateNoRenew(s1, c, total, layer, timeout_ms, t) ==
    LET s2 == [s1 EXCEPT !.accumulation_reset_work = Reschedule(t, c.threshold_time_ms)]
    IN IF s2.layer_active
       THEN Result(s2, <<>>, "ZMK_INPUT_PROC_CONTINUE")
       ELSE IF total >= c.threshold
       THEN Result([s2 EXCEPT !.layer_active = TRUE,
                              !.active_layer = ToInt8(layer),
                              !.accumulated_x = 0,
                              !.accumulated_y = 0,
                              !.layer_disable_work = Reschedule(t, timeout_ms)],
                   <<Activate(layer)>>, "ZMK_INPUT_PROC_CONTINUE")
       ELSE Result(s2, <<>>, "ZMK_INPUT_PROC_CONTINUE")

\* from "Reset accumulation timer" to the end of the handler
AfterAccumulate(s1, c, total, layer, timeout_ms, t) ==
    LET s2 == [s1 EXCEPT !.accumulation_reset_work = Reschedule(t, c.threshold_time_ms)]
    IN IF s2.layer_active
       THEN Result([s2 EXCEPT !.layer_disable_work = Reschedule(t, timeout_ms)],
                   <<>>, "ZMK_INPUT_PROC_CONTINUE")
       ELSE IF total >= c.threshold
       THEN Result([s2 EXCEPT !.layer_active = TRUE,
                              !.active_layer = ToInt8(layer),
                              !.accumulated_x = 0,
                              !.accumulated_y = 0,
                              !.layer_disable_work = Reschedule(t, timeout_ms)],
                   <<Activate(layer)>>, "ZMK_INPUT_PROC_CONTINUE")
       ELSE Result(s2, <<>>, "ZMK_INPUT_PROC_CONTINUE")

\* variant: the gated event is stopped instead of passed on
handle_event_stop_gated(st, c, ev, param1, param2, t) ==
    IF IdleGated(st, c, t)
    THEN {Result(st, <<>>, "ZMK_INPUT_PROC_STOP")}
    ELSE UNION {{AfterAccumulate(s1, c, total, ToUint8(param1), param2, t) :
                    total \in TotalMovement(s1)} :
                s1 \in Accumulate(st, ev)}

\* variant: the gated event still renews the timeout of an active layer
handle_event_gated_renews(st, c, ev, param1, param2, t) ==
    IF IdleGated(st, c, t)
    THEN {Result(IF st.layer_active
                 THEN [st EXCEPT !.layer_disable_work = Reschedule(t, param2)]
                 ELSE st,
                 <<>>, "ZMK_INPUT_PROC_CONTINUE")}
    ELSE UNION {{AfterAccumulate(s1, c, total, ToUint8(param1), param2, t) :
                    total \in TotalMovement(s1)} :
                s1 \in Accumulate(st, ev)}

\* the possible outcomes of one invocation at uptime t
handle_event(st, c, ev, param1, param2, t) ==
    IF IdleGated(st, c, t)
    THEN {Result(st, <<>>, "ZMK_INPUT_PROC_CONTINUE")}
    ELSE UNION {{AfterAccumulate(s1, c, total, ToUint8(param1), param2, t) :
                    total \in TotalMovement(s1)} :
                s1 \in Accumulate(st, ev)}

---------------------------------------------------------------------------
(* The state machine *)

Tag(n, cs) == [i \in 1..Len(cs) |-> [inst |-> n, kind |-> cs[i].kind, layer |-> cs[i].layer]]

LastOf(old, cs) == IF cs = <<>> THEN old ELSE cs[Len(cs)]

Init ==
    /\ now = 0
    /\ cfg \in [OneInstance -> Configs]
    /\ devs = [n \in OneInstance |-> InitState]
    /\ running = {}
    /\ calls = <<>>
    /\ last_call = [n \in OneInstance |-> NoCall]
    /\ last_key = [press |-> -1, event |-> -1]
    /\ op = [name |-> "init", inst |-> 0]
    /\ since = [n \in DOMAIN devs |-> -1]

\* the uptime of the first event counted into the accumulators of the state
\* new, given the state old before the event handled at uptime t
Since(old, new, s, t) ==
    IF new.accumulated_x = 0 /\ new.accumulated_y = 0 THEN -1
    ELSE IF old.accumulated_x = 0 /\ old.accumulated_y = 0 THEN t
    ELSE s

\* an input event reaches instance n
HandleEvent(n, ev, param1, param2) ==
    /\ devs[n].accumulated_x + devs[n].accumulated_y <= MaxAccum
    /\ \E r \in handle_event(devs[n], cfg[n], ev, param1, param2, now) :
         /\ devs' = [devs EXCEPT ![n] = r.state]
         /\ calls' = Tag(n, r.calls)
         /\ last_call' = [last_call EXCEPT ![n] = LastOf(@, r.calls)]
         /\ op' = [name |-> "handle_event", inst |-> n, ev |-> ev, ret |-> r.ret]
    /\ UNCHANGED <<now, cfg, running, last_key, since>>

\* the same, keeping track of the start of the accumulation
HandleEventTracked(n, ev, param1, param2) ==
    /\ devs[n].accumulated_x + devs[n].accumulated_y <= MaxAccum
    /\ \E r \in handle_event(devs[n], cfg[n], ev, param1, param2, now) :
         /\ devs' = [devs EXCEPT ![n] = r.state]
         /\ calls' = Tag(n, r.calls)
         /\ last_call' = [last_call EXCEPT ![n] = LastOf(@, r.calls)]
         /\ op' = [name |-> "handle_event", inst |-> n, ev |-> ev, ret |-> r.ret]
         /\ since' = [since EXCEPT ![n] = Since(devs[n], r.state, @, now)]
    /\ UNCHANGED <<now, cfg, running, last_key>>

\* the same for the events of WideEvents, delivered while both accumulators
\* are small
HandleEventWide(n, ev, param1, param2) ==
    /\ devs[n].accumulated_x \in 0..MaxAccum
    /\ devs[n].accumulated_y \in 0..MaxAccum
    /\ \E r \in handle_event(devs[n], cfg[n], ev, param1, param2, now) :
         /\ devs' = [devs EXCEPT ![n] = r.state]
         /\ calls' = Tag(n, r.calls)
         /\ last_call' = [last_call EXCEPT ![n] = LastOf(@, r.calls)]
         /\ op' = [name |-> "handle_event", inst |-> n, ev |-> ev, ret |-> r.ret]
    /\ UNCHANGED <<now, cfg, running, last_key, since>>

RECURSIVE Flatten(_, _)
Flatten(f, S) ==
    IF S = {} THEN <<>>
    ELSE LET n == CHOOSE x \in S : \A y \in S : x <= y
         IN Tag(n, f[n].calls) \o Flatten(f, S \ {n})

\* variant: every instance is checked against the first instance's config
PositionStateChangedFirstConfig(ev) ==
    LET first == CHOOSE x \in Instances : \A y \in Instances : x <= y
        r == [n \in Instances |-> position_state_changed_listener(devs[n], cfg[first], ev)]
    IN /\ devs' = [n \in Instances |-> r[n].state]
       /\ calls' = Flatten(r, Instances)
       /\ last_call' = [n \in Instances |-> LastOf(last_call[n], r[n].calls)]
       /\ last_key' = [press |-> IF ev.state THEN ev.timestamp ELSE last_key.press,
                       event |-> ev.timestamp]
       /\ op' = [name |-> "position_state_changed_listener", inst |-> 0, ev |-> ev]
       /\ UNCHANGED <<now, cfg, running, since>>

\* a key position event is raised: the listener visits every instance
PositionStateChanged(ev) ==
    LET r == [n \in Instances |-> position_state_changed_listener(devs[n], cfg[n], ev)]
    IN /\ devs' = [n \in Instances |-> r[n].state]
       /\ calls' = Flatten(r, Instances)
       /\ last_call' = [n \in Instances |-> LastOf(last_call[n], r[n].calls)]
       /\ last_key' = [press |-> IF ev.state THEN ev.timestamp ELSE last_key.press,
                       event |-> ev.timestamp]
       /\ op' = [name |-> "position_state_changed_listener", inst |-> 0, ev |-> ev]
       /\ UNCHANGED <<now, cfg, running, since>>

\* the work queue runs layer_disable_work of instance n
LayerDisableFire(n) ==
    /\ Due(devs[n].layer_disable_work, now)
    /\ LET r == layer_disable_callback([devs[n] EXCEPT !.layer_disable_work = IdleWork])
       IN /\ devs' = [devs EXCEPT ![n] = r.state]
          /\ calls' = Tag(n, r.calls)
          /\ last_call' = [last_call EXCEPT ![n] = LastOf(@, r.calls)]
    /\ op' = [name |-> "layer_disable_callback", inst |-> n]
    /\ UNCHANGED <<now, cfg, running, last_key, since>>

\* The same in two steps.  The work queue takes the due item off the queue:
\* from here on k_work_cancel_delayable cannot stop it, k_work_reschedule
\* schedules it anew.
LayerDisableDequeue(n) ==
    /\ Due(devs[n].layer_disable_work, now)
    /\ n \notin running
    /\ devs' = [devs EXCEPT ![n].layer_disable_work = IdleWork]
    /\ running' = running \cup {n}
    /\ calls' = <<>>
    /\ op' = [name |-> "layer_disable_dequeue", inst |-> n]
    /\ UNCHANGED <<now, cfg, last_call, last_key, since>>

\* ... and enters the handler, after whatever ran in between
LayerDisableRun(n) ==
    /\ n \in running
    /\ LET r == layer_disable_callback(devs[n])
       IN /\ devs' = [devs EXCEPT ![n] = r.state]
          /\ calls' = Tag(n, r.calls)
          /\ last_call' = [last_call EXCEPT ![n] = LastOf(@, r.calls)]
    /\ running' = running \ {n}
    /\ op' = [name |-> "layer_disable_callback", inst |-> n]
    /\ UNCHANGED <<now, cfg, last_key, since>>

\* the work queue runs accumulation_reset_work of instance n
AccumulationResetFire(n) ==
    /\ Due(devs[n].accumulation_reset_work, now)
    /\ LET r == accumulation_reset_callback(
                    [devs[n] EXCEPT !.accumulation_reset_work = IdleWork])
       IN /\ devs' = [devs EXCEPT ![n] = r.state]
          /\ calls' = Tag(n, r.calls)
          /\ last_call' = [last_call EXCEPT ![n] = LastOf(@, r.calls)]
    /\ op' = [name |-> "accumulation_reset_callback", inst |-> n,
              cleared |-> <<devs[n].accumulated_x, devs[n].accumulated_y>>]
    /\ since' = [since EXCEPT ![n] = -1]
    /\ UNCHANGED <<now, cfg, running, last_key>>

\* a millisecond passes; nothing that is due is left behind
Tick ==
    /\ now < MaxTime
    /\ running = {}
    /\ \A n \in Instances :
         /\ ~Due(devs[n].layer_disable_work, now)
         /\ ~Due(devs[n].accumulation_reset_work, now)
    /\ now' = now + 1
    /\ calls' = <<>>
    /\ op' = [name |-> "tick", inst |-> 0]
    /\ UNCHANGED <<cfg, devs, running, last_call, last_key, since>>

\* the timestamps a key position event may carry at uptime t
Timestamps(t) == {t} \cup (IF t > 0 THEN {t - 1} ELSE {})

KeyEvents(t) == [position : Positions, state : BOOLEAN, timestamp : Timestamps(t)]

Next ==
    \/ \E n \in Instances, ev \in Events, l \in Layers, ms \in Timeouts :
         HandleEvent(n, ev, l, ms)
    \/ \E ev \in KeyEvents(now) : PositionStateChanged(ev)
    \/ \E n \in Instances : LayerDisableFire(n)
    \/ \E n \in Instances : AccumulationResetFire(n)
    \/ Tick

Spec == Init /\ [][Next]_vars

\* the idle gate plays no part in the race
InitRace == Init /\ \A n \in Instances : cfg[n].require_prior_idle_ms = 0

NextRace ==
    \/ \E n \in Instances, ev \in MotionEvents, l \in Layers, ms \in Timeouts :
         HandleEvent(n, ev, l, ms)
    \/ \E ev \in KeyEvents(now) : PositionStateChanged(ev)
    \/ \E n \in Instances : LayerDisableDequeue(n)
    \/ \E n \in Instances : LayerDisableRun(n)
    \/ \E n \in Instances : AccumulationResetFire(n)
    \/ Tick

\* the runs with deltas of the whole int32_t range
NextWide ==
    \/ \E n \in Instances, ev \in WideEvents, l \in Layers, ms \in Timeouts :
         HandleEventWide(n, ev, l, ms)
    \/ \E ev \in KeyEvents(now) : PositionStateChanged(ev)
    \/ \E n \in Instances : LayerDisableFire(n)
    \/ \E n \in Instances : AccumulationResetFire(n)
    \/ Tick

SpecWide == Init /\ [][NextWide]_vars

\* a build with two instances, each with its own excluded position
InitTwo ==
    /\ now = 0
    /\ cfg \in {[n \in TwoInstances |->
                   [c EXCEPT !.require_prior_idle_ms = 0,
                             !.excluded_positions = IF n = 0 THEN <<5>> ELSE <<3>>]] :
                c \in Configs}
    /\ devs = [n \in TwoInstances |-> InitState]
    /\ running = {}
    /\ calls = <<>>
    /\ last_call = [n \in TwoInstances |-> NoCall]
    /\ last_key = [press |-> -1, event |-> -1]
    /\ op = [name |-> "init", inst |-> 0]
    /\ since = [n \in DOMAIN devs |-> -1]

\* instance n is bound with layer n + 1
NextTwo ==
    \/ \E n \in Instances, ev \in TwoEvents, ms \in Timeouts :
         HandleEvent(n, ev, n + 1, ms)
    \/ \E ev \in KeyEvents(now) : PositionStateChanged(ev)
    \/ \E n \in Instances : LayerDisableFire(n)
    \/ \E n \in Instances : AccumulationResetFire(n)
    \/ Tick

SpecTwo == InitTwo /\ [][NextTwo]_vars

\* a build with a window of one millisecond; the start of every accumulation
\* is kept in since
InitWindow ==
    /\ now = 0
    /\ cfg \in {[n \in OneInstance |-> [c EXCEPT !.threshold_time_ms = 1]] : c \in Configs}
    /\ devs = [n \in OneInstance |-> InitState]
    /\ running = {}
    /\ calls = <<>>
    /\ last_call = [n \in OneInstance |-> NoCall]
    /\ last_key = [press |-> -1, event |-> -1]
    /\ op = [name |-> "init", inst |-> 0]
    /\ since = [n \in OneInstance |-> -1]

NextWindow ==
    \/ \E n \in Instances, ev \in MotionEvents, l \in Layers, ms \in Timeouts :
         HandleEventTracked(n, ev, l, ms)
    \/ \E ev \in KeyEvents(now) : PositionStateChanged(ev)
    \/ \E n \in Instances : LayerDisableFire(n)
    \/ \E n \in Instances : AccumulationResetFire(n)
    \/ Tick

SpecWindow == InitWindow /\ [][NextWindow]_vars

\* the runs in which other handlers run between the work queue taking
\* layer_disable_work and the handler's body
SpecRace == InitRace /\ [][NextRace]_vars

---------------------------------------------------------------------------
(* Vocabulary of the properties *)

\* |v|
Abs(v) == IF v < 0 THEN -v ELSE v

\* what an event adds to the accumulated movement when it is counted
Magnitude(ev) ==
    IF ev.type = "INPUT_EV_REL" /\ ev.code \in {"INPUT_REL_X", "INPUT_REL_Y"}
    THEN Abs(ev.value)
    ELSE 0

\* accumulated_x + accumulated_y of instance n
Total(n) == devs[n].accumulated_x + devs[n].accumulated_y

\* the excluded positions of instance n
ExcludedSet(n) ==
    {cfg[n].excluded_positions[i] : i \in 1..Len(cfg[n].excluded_positions)}

\* the calls of one kind that instance n made in the last step
CallsOf(n, kind) == {i \in 1..Len(calls) : calls[i].inst = n /\ calls[i].kind = kind}

\* the start of the quiet period: the last key press, the boot before any
LastPressOrBoot == IF last_key.press < 0 THEN 0 ELSE last_key.press

\* the idle gate lets an event through at the current uptime
PassesGate(n) ==
    \/ cfg[n].require_prior_idle_ms = 0
    \/ now - LastPressOrBoot >= cfg[n].require_prior_idle_ms

\* the last step ran the named handler for instance n
Ran(name, n) == op.name = name /\ op.inst = n

\* instance n's accumulators are as they were
AccumulatorsKept(n) ==
    /\ devs'[n].accumulated_x = devs[n].accumulated_x
    /\ devs'[n].accumulated_y = devs[n].accumulated_y

\* the event's magnitude entered the total of instance n: it is in the
\* accumulator of its axis, or it took part in an activation, which zeroes both
Counted(n, ev) ==
    \/ /\ CallsOf(n, "activate")' # {}
       /\ devs'[n].accumulated_x = 0
       /\ devs'[n].accumulated_y = 0
    \/ /\ ev.code = "INPUT_REL_X"
       /\ devs'[n].accumulated_x = devs[n].accumulated_x + Abs(ev.value)
       /\ devs'[n].accumulated_y = devs[n].accumulated_y
    \/ /\ ev.code = "INPUT_REL_Y"
       /\ devs'[n].accumulated_y = devs[n].accumulated_y + Abs(ev.value)
       /\ devs'[n].accumulated_x = devs[n].accumulated_x

---------------------------------------------------------------------------
(* C1 *)

\* the total of instance n once the event ev, handled now, has been counted;
\* an event held back by the idle gate adds nothing
TotalAfter(n, ev) == Total(n) + (IF PassesGate(n) THEN Magnitude(ev) ELSE 0)

\* C1: the activate call is made only by a handled event, only while
\* layer_active is false and only when the total with that event has reached
\* the threshold (never below it, never again while the layer is active); the
\* first event after which the total has reached the threshold makes it; and
\* so does, later on, every event that passes the gate while the layer is not
\* active and brings the total to the threshold.
C1_ActivatesAtThreshold ==
    [][\A n \in Instances :
          /\ CallsOf(n, "activate")' # {} =>
                /\ Ran("handle_event", n)'
                /\ Cardinality(CallsOf(n, "activate")') = 1
                /\ ~devs[n].layer_active
                /\ TotalAfter(n, op'.ev) >= cfg[n].threshold
          /\ (/\ Ran("handle_event", n)'
              /\ last_call[n].kind = "none"
              /\ TotalAfter(n, op'.ev) >= cfg[n].threshold) =>
                CallsOf(n, "activate")' # {}
          /\ (/\ Ran("handle_event", n)'
              /\ ~devs[n].layer_active
              /\ PassesGate(n)
              /\ TotalAfter(n, op'.ev) >= cfg[n].threshold) =>
                CallsOf(n, "activate")' # {}]_vars

\* a motion event has activated the layer of a gated instance, once the idle
\* time after a press on an excluded position had passed
C1_Witness ==
    \E n \in Instances :
        /\ Ran("handle_event", n)
        /\ CallsOf(n, "activate") # {}
        /\ devs[n].layer_active
        /\ cfg[n].require_prior_idle_ms > 0
        /\ last_key.press >= 0

---------------------------------------------------------------------------
(* C2 *)

\* C2 as stated: an active layer has its disable timer pending, and when the
\* timer's handler runs for an active layer it calls deactivate for that layer
\* and leaves the controller inactive, whatever layer id was activated.
C2_TimerDeactivates ==
    [][\A n \in Instances :
          /\ devs'[n].layer_active => devs'[n].layer_disable_work.pending
          /\ (Ran("layer_disable_callback", n)' /\ devs[n].layer_active) =>
                /\ ~devs'[n].layer_active
                /\ \E i \in CallsOf(n, "deactivate")' :
                      calls'[i].layer = last_call[n].layer]_vars

---------------------------------------------------------------------------
(* C3 *)

\* C3: a press on a non-excluded position while the layer is active calls
\* deactivate for the active layer, clears layer_active and active_layer and
\* leaves no disable work scheduled; the disable handler never runs for an
\* inactive controller, and an inactive controller never has a disable work
\* scheduled that could cut a later activation short.
C3_PressDeactivates ==
    [][/\ \A n \in Instances :
            (/\ op'.name = "position_state_changed_listener"
             /\ op'.ev.state
             /\ devs[n].layer_active
             /\ op'.ev.position \notin ExcludedSet(n)) =>
                /\ ~devs'[n].layer_active
                /\ devs'[n].active_layer = -1
                /\ ~devs'[n].layer_disable_work.pending
                /\ Cardinality(CallsOf(n, "deactivate")') = 1
                /\ \A i \in CallsOf(n, "deactivate")' :
                      calls'[i].layer = last_call[n].layer
       /\ \A n \in Instances :
            /\ ~devs'[n].layer_active => ~devs'[n].layer_disable_work.pending
            /\ Ran("layer_disable_callback", n)' => devs[n].layer_active]_vars

\* a key press has ended an activation whose timer was still to fire
C3_Witness ==
    \E n \in Instances :
        /\ op.name = "position_state_changed_listener"
        /\ op.ev.state
        /\ op.ev.position \notin ExcludedSet(n)
        /\ CallsOf(n, "deactivate") # {}
        /\ ~devs[n].layer_active
        /\ ~devs[n].layer_disable_work.pending

---------------------------------------------------------------------------
(* C4 *)

\* C4: a press on an excluded position while the layer is active changes
\* nothing of the instance but last_tapped_time: layer_active, active_layer,
\* the disable work and its deadline stay, and no call is made.
C4_ExcludedPressKeeps ==
    [][\A n \in Instances :
          (/\ op'.name = "position_state_changed_listener"
           /\ op'.ev.state
           /\ devs[n].layer_active
           /\ op'.ev.position \in ExcludedSet(n)) =>
              /\ devs'[n] = [devs[n] EXCEPT !.last_tapped_time = devs'[n].last_tapped_time]
              /\ devs'[n].layer_active
              /\ devs'[n].layer_disable_work = devs[n].layer_disable_work
              /\ CallsOf(n, "deactivate")' = {}
              /\ CallsOf(n, "activate")' = {}]_vars

\* a key was pressed and the layer stayed active, its timer scheduled
C4_Witness ==
    \E n \in Instances :
        /\ op.name = "position_state_changed_listener"
        /\ op.ev.state
        /\ op.ev.position \in ExcludedSet(n)
        /\ devs[n].layer_active
        /\ devs[n].layer_disable_work.pending
        /\ devs[n].last_tapped_time = last_key.press
        /\ calls = <<>>

---------------------------------------------------------------------------
(* C5 *)

---------------------------------------------------------------------------
(* C6 *)

\* C6: the reset handler zeroes both accumulators whatever they held; every
\* event that passes the gate at uptime t schedules the reset for
\* t + threshold_time_ms and nothing else moves it; accumulators that are not
\* zero always have the reset scheduled and not overdue.  Hence an event
\* arriving more than threshold_time_ms after the last one that passed the
\* gate finds both accumulators zero.
C6_WindowExpiry ==
    [][\A n \in Instances :
          /\ Ran("accumulation_reset_callback", n)' =>
                /\ devs'[n].accumulated_x = 0
                /\ devs'[n].accumulated_y = 0
                /\ ~devs'[n].accumulation_reset_work.pending
          /\ (Ran("handle_event", n)' /\ PassesGate(n)) =>
                devs'[n].accumulation_reset_work =
                    [pending |-> TRUE, deadline |-> now + cfg[n].threshold_time_ms]
          /\ ~(Ran("accumulation_reset_callback", n)' \/ Ran("handle_event", n)') =>
                /\ AccumulatorsKept(n)
                /\ devs'[n].accumulation_reset_work = devs[n].accumulation_reset_work
          /\ (devs'[n].accumulated_x # 0 \/ devs'[n].accumulated_y # 0) =>
                /\ devs'[n].accumulation_reset_work.pending
                /\ now' <= devs'[n].accumulation_reset_work.deadline]_vars

\* the reset handler has cleared a total that was one below the threshold
C6_Witness ==
    \E n \in Instances :
        /\ Ran("accumulation_reset_callback", n)
        /\ op.cleared[1] + op.cleared[2] = cfg[n].threshold - 1
        /\ ~devs[n].layer_active
        /\ Total(n) = 0

---------------------------------------------------------------------------
(* C7 *)

\* C7: an event that passes the gate at uptime t while the layer is active
\* schedules the disable work for t + timeout_ms of that invocation, makes no
\* call and keeps layer_active and active_layer; the disable handler runs only
\* when the scheduled time has come.
C7_SlidingTimeout ==
    [][\A n \in Instances :
          /\ (Ran("handle_event", n)' /\ devs[n].layer_active /\ PassesGate(n)) =>
                /\ devs'[n].layer_disable_work.pending
                /\ calls' = <<>>
                /\ devs'[n].layer_active
                /\ devs'[n].active_layer = devs[n].active_layer
                /\ \A ms \in Timeouts :
                      \/ devs'[n].layer_disable_work.deadline = now + ms
                      \/ \A l \in Layers : ~HandleEvent(n, op'.ev, l, ms)
          /\ Ran("layer_disable_callback", n)' =>
                /\ devs[n].layer_disable_work.pending
                /\ devs[n].layer_disable_work.deadline <= now]_vars

\* the timeout of an active layer was renewed after its first deadline
C7_Witness ==
    \E n \in Instances :
        /\ Ran("handle_event", n)
        /\ calls = <<>>
        /\ devs[n].layer_active
        /\ last_call[n].kind = "activate"
        /\ devs[n].layer_disable_work.pending
        /\ devs[n].layer_disable_work.deadline > now
        /\ now >= 2

---------------------------------------------------------------------------
(* C8 *)

\* C8: the disable handler entered while layer_active is false makes no call
\* and changes no state, and it never makes a deactivate call unless the
\* instance's last call was an activate: delivered again it deactivates
\* nothing.
C8_DisableCallbackIdempotent ==
    [][\A n \in Instances :
          Ran("layer_disable_callback", n)' =>
              /\ ~devs[n].layer_active => (calls' = <<>> /\ devs' = devs)
              /\ last_call[n].kind # "activate" => calls' = <<>>
              /\ Cardinality(CallsOf(n, "deactivate")') <= 1]_vars

\* the handler ran after a key press had already deactivated the layer
C8_Witness ==
    \E n \in Instances :
        /\ Ran("layer_disable_callback", n)
        /\ calls = <<>>
        /\ ~devs[n].layer_active
        /\ last_call[n].kind = "deactivate"

---------------------------------------------------------------------------
(* C9 *)

\* C9: the calls of an instance alternate, starting with activate: a step
\* makes at most one call for it, an activate only when its last call was not
\* an activate, a deactivate only when its last call was an activate.
C9_CallsAlternate ==
    [][\A n \in Instances :
          /\ Cardinality(CallsOf(n, "activate")' \cup CallsOf(n, "deactivate")') <= 1
          /\ CallsOf(n, "activate")' # {} => last_call[n].kind # "activate"
          /\ CallsOf(n, "deactivate")' # {} => last_call[n].kind = "activate"]_vars

\* the key press got there first: it deactivated the layer while the disable
\* handler was about to run
C9_Witness ==
    \E n \in Instances :
        /\ op.name = "position_state_changed_listener"
        /\ CallsOf(n, "deactivate") # {}
        /\ n \in running

---------------------------------------------------------------------------
(* C10 *)

\* C10 as stated: layer_active is true exactly when active_layer holds a
\* layer, that is, is not -1.
C10_ActiveIffLayer ==
    \A n \in Instances : devs[n].layer_active <=> devs[n].active_layer # -1

---------------------------------------------------------------------------
(* C11 *)

\* C11 as stated: in every reachable state both accumulators are >= 0,
\* whatever int32_t deltas the events carry.
C11_AccumulatorsNonNegative ==
    \A n \in Instances : devs[n].accumulated_x >= 0 /\ devs[n].accumulated_y >= 0

---------------------------------------------------------------------------
(* C12 *)

---------------------------------------------------------------------------
(* C13 *)

\* C13 as stated: an event of another type than relative motion, or of an
\* axis that is neither X nor Y, leaves both accumulators unchanged, causes no
\* activate call and is passed on (ZMK_INPUT_PROC_CONTINUE).
C13_UnrecognizedIgnored ==
    [][\A n \in Instances :
          (Ran("handle_event", n)' /\ op'.ev \in OtherEvents) =>
              /\ AccumulatorsKept(n)
              /\ CallsOf(n, "activate")' = {}
              /\ ~devs[n].layer_active => ~devs'[n].layer_active
              /\ op'.ret = "ZMK_INPUT_PROC_CONTINUE"]_vars

---------------------------------------------------------------------------
(* C14 *)

\* the calls a step made for instance n
CallsFor(n) == {i \in 1..Len(calls) : calls[i].inst = n}

\* C14: an event or a timer handled for one instance changes no state or
\* timer and makes no call of another; a key press deactivates exactly the
\* instances that are active and do not list the position among their own
\* excluded positions, and changes nothing but last_tapped_time of every
\* other instance.
C14_InstancesIndependent ==
    [][\A n \in Instances :
          /\ op'.name \in {"handle_event", "layer_disable_callback",
                           "accumulation_reset_callback"} =>
                \A m \in Instances \ {op'.inst} :
                    devs'[m] = devs[m] /\ CallsFor(m)' = {}
          /\ (op'.name = "position_state_changed_listener" /\ op'.ev.state) =>
                IF devs[n].layer_active /\ op'.ev.position \notin ExcludedSet(n)
                THEN /\ Cardinality(CallsOf(n, "deactivate")') = 1
                     /\ ~devs'[n].layer_active
                ELSE /\ CallsFor(n)' = {}
                     /\ devs'[n] = [devs[n] EXCEPT !.last_tapped_time =
                                                       devs'[n].last_tapped_time]]_vars

\* a key press has deactivated one of two active instances and left the
\* other, which excludes the position, active with its timer
C14_Witness ==
    \E n, m \in Instances :
        /\ n # m
        /\ op.name = "position_state_changed_listener"
        /\ op.ev.state
        /\ CallsOf(n, "deactivate") # {}
        /\ ~devs[n].layer_active
        /\ CallsFor(m) = {}
        /\ devs[m].layer_active
        /\ devs[m].layer_disable_work.pending
        /\ op.ev.position \in ExcludedSet(m)

---------------------------------------------------------------------------
(* C15 *)

\* C15: handle_event returns ZMK_INPUT_PROC_CONTINUE on every path: the
\* event held back by the idle gate, the event of another shape, the layer
\* already active, the threshold not reached, the activation.
C15_AlwaysContinue ==
    [][\A n \in Instances :
          Ran("handle_event", n)' => op'.ret = "ZMK_INPUT_PROC_CONTINUE"]_vars

\* an event was held back by the idle gate and passed on
C15_Witness ==
    \E n \in Instances :
        /\ Ran("handle_event", n)
        /\ ~PassesGate(n)
        /\ op.ret = "ZMK_INPUT_PROC_CONTINUE"

---------------------------------------------------------------------------
(* C16 *)

\* C16 as stated: right after the event that triggers the activation,
\* activate has been called once, with the layer id of that invocation,
\* layer_active is true, active_layer is that layer id, both accumulators are
\* zero and the disable work is scheduled timeout_ms of that invocation ahead.
C16_ActivationEffect ==
    [][\A n \in Instances :
          (Ran("handle_event", n)' /\ CallsOf(n, "activate")' # {}) =>
              \A l \in Layers, ms \in Timeouts :
                  HandleEvent(n, op'.ev, l, ms) =>
                      /\ calls' = <<[inst |-> n, kind |-> "activate", layer |-> l]>>
                      /\ devs'[n].layer_active
                      /\ devs'[n].active_layer = l
                      /\ devs'[n].accumulated_x = 0
                      /\ devs'[n].accumulated_y = 0
                      /\ devs'[n].layer_disable_work =
                            [pending |-> TRUE, deadline |-> now + ms]]_vars

---------------------------------------------------------------------------
(* C17 *)

\* C17: an event held back by the idle gate changes nothing of its instance
\* (accumulators, layer_active, active_layer, both work items with their
\* deadlines) and makes no call; the disable work of an active layer is not
\* renewed by it, so the layer times out while such events arrive.
C17_GatedChangesNothing ==
    [][\A n \in Instances :
          (Ran("handle_event", n)' /\ ~PassesGate(n)) =>
              /\ devs'[n] = devs[n]
              /\ calls' = <<>>]_vars

\* an event was held back while the layer was active and its timeout had
\* come: the disable work is still due
C17_Witness ==
    \E n \in Instances :
        /\ Ran("handle_event", n)
        /\ ~PassesGate(n)
        /\ devs[n].layer_active
        /\ Due(devs[n].layer_disable_work, now)
        /\ devs[n].accumulation_reset_work.pending

---------------------------------------------------------------------------
(* C18 *)

\* C18: every motion event that passes the gate at uptime t, the layer
\* active or not, leaves the reset work scheduled for t + threshold_time_ms,
\* whatever was scheduled before; the reset handler runs only once that time
\* has come, and until it runs or the layer is activated no accumulator
\* decreases.  So the accumulators outlast any span of motion whose events
\* follow each other closely enough.
C18_TrailingWindow ==
    [][\A n \in Instances :
          /\ (Ran("handle_event", n)' /\ op'.ev \in MotionEvents /\ PassesGate(n)) =>
                devs'[n].accumulation_reset_work =
                    [pending |-> TRUE, deadline |-> now + cfg[n].threshold_time_ms]
          /\ Ran("accumulation_reset_callback", n)' =>
                /\ devs[n].accumulation_reset_work.pending
                /\ devs[n].accumulation_reset_work.deadline <= now
          /\ ~(Ran("accumulation_reset_callback", n)' \/ CallsOf(n, "activate")' # {}) =>
                /\ devs'[n].accumulated_x >= devs[n].accumulated_x
                /\ devs'[n].accumulated_y >= devs[n].accumulated_y]_vars

\* motion that began more than threshold_time_ms ago has added up to one
\* below the threshold, the layer never activated so far
C18_Witness ==
    \E n \in Instances :
        /\ Ran("handle_event", n)
        /\ op.ev \in MotionEvents
        /\ last_call[n].kind = "none"
        /\ Total(n) = cfg[n].threshold - 1
        /\ since[n] >= 0
        /\ now - since[n] > cfg[n].threshold_time_ms
        /\ devs[n].accumulation_reset_work =
              [pending |-> TRUE, deadline |-> now + cfg[n].threshold_time_ms]

---------------------------------------------------------------------------
(* C19 *)

\* C19 as stated: in every reachable state the disable work of an instance is
\* pending exactly when its layer_active is true.
C19_TimerIffActive ==
    \A n \in Instances : devs[n].layer_disable_work.pending <=> devs[n].layer_active

---------------------------------------------------------------------------
(* C20 *)

\* C20 as stated: in every reachable state in which layer_active is false
\* the accumulated total is below the threshold.
C20_InactiveBelowThreshold ==
    \A n \in Instances :
        (cfg[n].threshold > 0 /\ ~devs[n].layer_active) => Total(n) < cfg[n].threshold

---------------------------------------------------------------------------
(* C21 *)

\* C21: every deactivate call of an instance, from the key press or from the
\* disable work, follows an activate call of that instance and names the
\* layer id of that call, whatever id of the uint8_t range it was; an event
\* handled while the layer is active makes no activate call and leaves
\* active_layer as it is, whatever layer id it carries.
C21_DeactivateNamesActivated ==
    [][\A n \in Instances :
          /\ \A i \in CallsOf(n, "deactivate")' :
                /\ last_call[n].kind = "activate"
                /\ calls'[i].layer = last_call[n].layer
          /\ (Ran("handle_event", n)' /\ devs[n].layer_active) =>
                /\ CallsOf(n, "activate")' = {}
                /\ devs'[n].active_layer = devs[n].active_layer
                /\ last_call'[n] = last_call[n]]_vars

\* a key press has deactivated layer 255, held as -1 in active_layer
C21_Witness ==
    \E n \in Instances :
        /\ op.name = "position_state_changed_listener"
        /\ \E i \in CallsOf(n, "deactivate") : calls[i].layer = 255
        /\ last_call[n] = [kind |-> "deactivate", layer |-> 255]
        /\ ~devs[n].layer_active

====
